---- MODULE Spec2Model ----
(***************************************************************************)
(* Github-Warning-System frontend: the live incident feed (Home,           *)
(* src/frontend/app/page.tsx), the feed card (Card,                        *)
(* src/frontend/components/Card.tsx) and the detail view (DetailsPage,     *)
(* src/frontend/components/Card.tsx lines 78-222).                         *)
(*                                                                         *)
(* SpecFeed   : one Home session: EventSource lifecycle and the feed.      *)
(* SpecDetail : the detail view: navigation, the fetch effect, responses   *)
(*              delivered in any order.                                    *)
(* SpecAgg    : the response callback of one fetch applied to every        *)
(*              bundle up to MaxAcc accidents.                             *)
(***************************************************************************)
EXTENDS Integers, Sequences, FiniteSets, TLC

(***************************************************************************)
(* Bounds of the model.                                                    *)
(***************************************************************************)
\* Number of stream messages delivered to one Home session.
MaxMsgs == 2
\* Length of the accident list of a bundle (SpecAgg).
MaxAcc == 3
\* Length of the accident list of a bundle in the navigation model (SpecDetail).
MaxDetailAcc == 1
\* Number of detail fetches issued by one mounted detail view.
MaxReq == 2

(***************************************************************************)
(* Values.  JavaScript's undefined is the string Undefined wherever a      *)
(* string field may be missing, so that all values of a field compare.     *)
(***************************************************************************)
Undefined == "<undefined>"

\* The texts a record's summary field carries on the stream.
SummaryArrayText == "[\"s1\"]"
SummaryGarbageText == "not json"
SummaryTexts == {SummaryArrayText, SummaryGarbageText}

\* JSON.parse on a summary text: the parsed array, or a SyntaxError.
SyntaxError == <<"SyntaxError">>
JsonParse(text) ==
    IF text = SummaryArrayText THEN <<"s1">> ELSE SyntaxError

JsonParseThrows(text) == JsonParse(text) = SyntaxError

FeedRepoNames == {"o/r"}
RepoNames == {"o/r", "q/s"}
EventTypes == {"PushEvent", "IssuesEvent"}

\* activity.payload: absent, or an object whose repo.name / type may be absent.
NoPayload == [present |-> FALSE, name |-> Undefined, type |-> Undefined]
Payloads ==
    {NoPayload}
    \cup [present : {TRUE}, name : FeedRepoNames \cup {Undefined}, type : {"PushEvent"}]
    \cup [present : {TRUE}, name : FeedRepoNames, type : {Undefined}]

Ids == {Undefined, "A", "B"}

\* The objects a stream message can decode to.
Records == [id : Ids, summary : SummaryTexts \cup {Undefined}, payload : Payloads]

\* event.data: a text that is JSON for a record, or a text that is not JSON.
NotJson == [json |-> FALSE,
            value |-> [id |-> Undefined, summary |-> Undefined, payload |-> NoPayload]]
RawMessages == {NotJson} \cup [json : {TRUE}, value : Records]

VARIABLES
    activities,     \* Home's useState list, newest first
    readyState,     \* EventSource.readyState: "connecting", "open", "closed"
    mounted,        \* Home is mounted
    closeCalls,     \* number of eventSource.close() calls issued
    closings,       \* number of times readyState entered "closed"
    errored,        \* the error event has been dispatched
    feedAtError,    \* activities at the time of the error event
    received,       \* every event.data dispatched to onmessage, in arrival order
    handlerThrew,   \* the last onmessage call ended in an uncaught exception
    renderCrashed,  \* Home's render threw and the error boundary unmounted it
    route,          \* "home" or "details"
    query,          \* the query string of the details URL, one raw value per key
    openedFor,      \* the event type the current detail view was opened for
    tzOffset,       \* the viewer's offset from UTC, in hours
    data,           \* DetailsPage useState: the fetched bundle
    summaries,      \* DetailsPage useState: the parsed summary list
    chartData,      \* DetailsPage useState: the 24 hour buckets
    heatmapValue,   \* DetailsPage useState: the day buckets
    requests,       \* the fetches issued by the mounted detail view, in order
    status,         \* per fetch: "pending", "fulfilled" or "rejected"
    dataFrom,       \* the fetch whose response data holds (0: none)
    summariesFrom,  \* the fetch whose response summaries was parsed from
    chartFrom,      \* the fetch whose response chartData was counted from
    heatFrom        \* the fetch whose response heatmapValue was grouped from

feedVars == <<activities, readyState, mounted, closeCalls, closings, errored,
              feedAtError, received, handlerThrew, renderCrashed>>

detailVars == <<route, query, openedFor, tzOffset, data, summaries, chartData,
                heatmapValue, requests, status, dataFrom, summariesFrom,
                chartFrom, heatFrom>>

vars == <<feedVars, detailVars>>

(***************************************************************************)
(* Home's render: activities.filter(...).map(...)                          *)
(***************************************************************************)
\* The filter callback: truthy summary that JSON.parse accepts.
FilterPass(activity) ==
    IF activity.summary = Undefined
    THEN FALSE
    ELSE ~JsonParseThrows(activity.summary)

Filtered(acts) == SelectSeq(acts, FilterPass)

\* The map callback reads activity.payload.repo.name: a TypeError without payload.
MapThrows(activity) == ~activity.payload.present

RenderThrows(acts) ==
    \E i \in 1..Len(Filtered(acts)) : MapThrows(Filtered(acts)[i])

\* The Card props of one filtered activity at position index (0-based).
CardOf(activity, index) ==
    [key |-> IF activity.id # Undefined THEN activity.id ELSE ToString(index),
     id |-> activity.id,
     repoName |-> activity.payload.name,
     eventType |-> activity.payload.type,
     summaries |-> JsonParse(activity.summary)]

\* The rendered list of cards; <<>> stands when render throws (nothing is shown).
VisibleFeed(acts) ==
    IF RenderThrows(acts)
    THEN <<>>
    ELSE [i \in 1..Len(Filtered(acts)) |-> CardOf(Filtered(acts)[i], i - 1)]

(***************************************************************************)
(* EventSource                                                             *)
(***************************************************************************)
\* eventSource.close(): readyState becomes CLOSED; nothing is dispatched after.
Close(rs) == "closed"

Entered(old, new) == IF old # "closed" /\ new = "closed" THEN 1 ELSE 0

FeedInit ==
    /\ activities = <<>>
    /\ readyState = "connecting"
    /\ mounted = TRUE
    /\ closeCalls = 0
    /\ closings = 0
    /\ errored = FALSE
    /\ feedAtError = <<>>
    /\ received = <<>>
    /\ handlerThrew = FALSE
    /\ renderCrashed = FALSE

\* The browser establishes the connection.
EsOpen ==
    /\ readyState = "connecting"
    /\ readyState' = "open"
    /\ UNCHANGED <<activities, mounted, closeCalls, closings, errored,
                   feedAtError, received, handlerThrew, renderCrashed>>
    /\ UNCHANGED detailVars

\* Faulty variant of Prepend: the new record goes to the tail.
PrependAtTail(decoded, prevData) == prevData \o <<decoded>>

\* setActivities((prevData) => [data, ...prevData])
Prepend(decoded, prevData) == <<decoded>> \o prevData

\* Faulty variant of OnMessageFeed: the message is stored whether or not
\* JSON.parse accepted it.
OnMessageFeedAlways(raw, prevData) == Prepend(raw.value, prevData)

\* The feed after onmessage(raw): JSON.parse throws before setActivities on a
\* text that is not JSON, else the decoded object is prepended.
OnMessageFeed(raw, prevData) ==
    IF raw.json THEN Prepend(raw.value, prevData) ELSE prevData

\* eventSource.onmessage, and the render the state update causes.
OnMessage(raw) ==
    /\ readyState = "open"
    /\ Len(received) < MaxMsgs
    /\ received' = Append(received, raw)
    /\ activities' = OnMessageFeed(raw, activities)
    /\ IF ~raw.json
       THEN \* JSON.parse(event.data) throws out of the callback
            /\ handlerThrew' = TRUE
            /\ UNCHANGED <<readyState, mounted, closeCalls, closings,
                           renderCrashed>>
       ELSE /\ handlerThrew' = FALSE
            /\ IF RenderThrows(activities')
               THEN \* render throws; React unmounts Home, the effect cleanup runs
                    /\ renderCrashed' = TRUE
                    /\ mounted' = FALSE
                    /\ readyState' = Close(readyState)
                    /\ closeCalls' = closeCalls + 1
                    /\ closings' = closings + Entered(readyState, readyState')
               ELSE UNCHANGED <<readyState, mounted, closeCalls, closings,
                                renderCrashed>>
    /\ UNCHANGED <<errored, feedAtError>>
    /\ UNCHANGED detailVars

\* Faulty variant of OnErrorHandler: the callback logs and leaves the channel.
OnErrorLogsOnly(rs) == rs

\* What the onerror callback does to the channel.
OnErrorHandler(rs) == Close(rs)

\* The transport fails: the browser moves to CONNECTING (it would retry) or to
\* CLOSED (fatal), dispatches error, and the onerror callback runs.
OnError(fatal) ==
    /\ readyState # "closed"
    /\ LET byBrowser == IF fatal THEN "closed" ELSE "connecting"
       IN /\ readyState' = OnErrorHandler(byBrowser)
          /\ closings' = closings + Entered(readyState, byBrowser)
                                  + Entered(byBrowser, readyState')
    /\ closeCalls' = closeCalls + 1
    /\ errored' = TRUE
    /\ feedAtError' = activities
    /\ UNCHANGED <<activities, mounted, received, handlerThrew, renderCrashed>>
    /\ UNCHANGED detailVars

\* The effect cleanup on unmount.
Unmount ==
    /\ mounted
    /\ mounted' = FALSE
    /\ readyState' = Close(readyState)
    /\ closeCalls' = closeCalls + 1
    /\ closings' = closings + Entered(readyState, readyState')
    /\ UNCHANGED <<activities, errored, feedAtError, received, handlerThrew,
                   renderCrashed>>
    /\ UNCHANGED detailVars

FeedNext ==
    \/ EsOpen
    \/ \E raw \in RawMessages : OnMessage(raw)
    \/ \E fatal \in BOOLEAN : OnError(fatal)
    \/ Unmount


(***************************************************************************)
(* The URL of the detail view: router.push builds the query with           *)
(* encodeURIComponent, useSearchParams().get decodes it.                   *)
(***************************************************************************)
EncodeURIComponent(s) ==
    CASE s = "o/r" -> "o%2Fr"
      [] s = "q/s" -> "q%2Fs"
      [] OTHER -> s

DecodeURIComponent(s) ==
    CASE s = "o%2Fr" -> "o/r"
      [] s = "q%2Fs" -> "q/s"
      [] OTHER -> s

\* searchParams.get(key): the decoded value, or null.
SearchParamsGet(q, key) ==
    IF q[key] = Undefined THEN Undefined ELSE DecodeURIComponent(q[key])

NoQuery == [repoName |-> Undefined, eventType |-> Undefined,
            accidentType |-> Undefined]

\* Card.handleCardClick: /details?repoName=...&eventType=...
CardQuery(repoName, eventType) ==
    [repoName |-> EncodeURIComponent(repoName),
     eventType |-> EncodeURIComponent(eventType),
     accidentType |-> Undefined]

\* Detail URLs entered directly, with the keys the detail view reads.
UrlQueries ==
    [repoName : {Undefined} \cup {EncodeURIComponent(n) : n \in RepoNames},
     eventType : {Undefined},
     accidentType : {Undefined} \cup EventTypes]

\* accidentType == "PushEvent" ? "force_push" : "issue_created"
IncidentKind(accidentType) ==
    IF accidentType = "PushEvent" THEN "force_push" ELSE "issue_created"

\* if (!repoName) return;
EffectFetches(q) ==
    /\ SearchParamsGet(q, "repoName") # Undefined
    /\ SearchParamsGet(q, "repoName") # ""

\* The URL the effect fetches, with the event type the view was opened for.
FetchRequest(q, asked) ==
    [repo_name |-> EncodeURIComponent(SearchParamsGet(q, "repoName")),
     accident_type |-> IncidentKind(SearchParamsGet(q, "accidentType")),
     asked |-> asked]

(***************************************************************************)
(* The detail bundle and the responses of the details endpoint.            *)
(***************************************************************************)
TimestampTexts == {"2024-01-01T09:15:00Z", "2024-01-01T22:50:00Z",
                   "2024-01-02T23:00:00Z", "not a date"}

\* The hours of a day: the 24 buckets of the histogram.
HoursPerDay == 24

TzOffsets == {0, 9}

InvalidDate == [valid |-> FALSE, t |-> 0]

\* new Date(text): hours since 2024-01-01T00:00Z, or an Invalid Date.
DateParse(text) ==
    CASE text = "2024-01-01T09:15:00Z" -> [valid |-> TRUE, t |-> 9]
      [] text = "2024-01-01T22:50:00Z" -> [valid |-> TRUE, t |-> 22]
      [] text = "2024-01-02T23:00:00Z" -> [valid |-> TRUE, t |-> 47]
      [] OTHER -> InvalidDate

\* date.getHours(): the hour in the viewer's time zone; NaN of an Invalid Date.
GetHours(date) ==
    IF date.valid
    THEN [nan |-> FALSE, h |-> (date.t + tzOffset) % HoursPerDay]
    ELSE [nan |-> TRUE, h |-> 0]

IsoDates == <<"2024-01-01", "2024-01-02", "2024-01-03">>

\* date.toISOString().split("T")[0]: the UTC calendar date.
ToISODate(date) == IsoDates[(date.t \div HoursPerDay) + 1]

NullSummary == [has |-> FALSE, text |-> Undefined, type |-> Undefined]
SummaryFields ==
    {NullSummary} \cup [has : {TRUE}, text : SummaryTexts, type : {"PushEvent"}]

SeqsUpTo(S, n) == UNION {[1..k -> S] : k \in 0..n}

Bundles(n) ==
    [summary : SummaryFields, accidents : SeqsUpTo(TimestampTexts, n)]

NoBundle == [summary |-> NullSummary, accidents |-> <<>>]

\* fetch rejects, res.ok is false, res.json() rejects, or a bundle arrives.
Failures == [kind : {"network", "notok", "badbody"}, bundle : {NoBundle}]
OkResponse(b) == [kind |-> "ok", bundle |-> b]
Responses(n) == Failures \cup {OkResponse(b) : b \in Bundles(n)}

(***************************************************************************)
(* The aggregation of the second .then callback.                           *)
(***************************************************************************)
\* Array.from({ length: 24 }, ...): count 0 for every hour.
AllHours == [hour \in 0..(HoursPerDay - 1) |-> 0]

\* accidents.forEach: allHours[hour].count += 1.  allHours[NaN] is undefined
\* and the increment throws a TypeError.
RECURSIVE FillHours(_, _)
FillHours(allHours, accidents) ==
    IF accidents = <<>>
    THEN [thrown |-> FALSE, hours |-> allHours]
    ELSE LET hour == GetHours(DateParse(Head(accidents)))
         IN IF hour.nan
            THEN [thrown |-> TRUE, hours |-> allHours]
            ELSE FillHours([allHours EXCEPT ![hour.h] = @ + 1],
                           Tail(accidents))

\* acc.find((item) => item.date === date): the index of the first match, or 0.
Find(acc, date) ==
    IF \E i \in 1..Len(acc) : acc[i].date = date
    THEN CHOOSE i \in 1..Len(acc) :
            /\ acc[i].date = date
            /\ \A j \in 1..(i - 1) : acc[j].date # date
    ELSE 0

\* Faulty variant of HeatmapStep: an entry is pushed for every accident.
HeatmapStepAlwaysPush(acc, date) == Append(acc, [date |-> date, count |-> 1])

\* One step of the reduce: increment the entry of the date, or push one.
HeatmapStep(acc, date) ==
    IF Find(acc, date) # 0
    THEN [acc EXCEPT ![Find(acc, date)].count = @ + 1]
    ELSE Append(acc, [date |-> date, count |-> 1])

\* accidents.reduce(...): toISOString() of an Invalid Date throws a RangeError.
RECURSIVE HeatmapReduce(_, _)
HeatmapReduce(acc, accidents) ==
    IF accidents = <<>>
    THEN [thrown |-> FALSE, value |-> acc]
    ELSE LET date == DateParse(Head(accidents))
         IN IF ~date.valid
            THEN [thrown |-> TRUE, value |-> acc]
            ELSE HeatmapReduce(HeatmapStep(acc, ToISODate(date)),
                               Tail(accidents))

(***************************************************************************)
(* DetailsPage                                                             *)
(***************************************************************************)
NoData == [set |-> FALSE, bundle |-> NoBundle]
NoSummaries == [set |-> FALSE, list |-> <<>>]
NoChart == [set |-> FALSE, hours |-> AllHours]

\* The useState values of a freshly mounted DetailsPage.
FreshState ==
    [data |-> NoData, summaries |-> NoSummaries, chartData |-> NoChart,
     heatmapValue |-> <<>>, dataFrom |-> 0, summariesFrom |-> 0,
     chartFrom |-> 0, heatFrom |-> 0, thrown |-> FALSE]

CurrentState ==
    [data |-> data, summaries |-> summaries, chartData |-> chartData,
     heatmapValue |-> heatmapValue, dataFrom |-> dataFrom,
     summariesFrom |-> summariesFrom, chartFrom |-> chartFrom,
     heatFrom |-> heatFrom, thrown |-> FALSE]

\* The second .then callback on the bundle of fetch rid: the state updates made
\* before an exception leaves the callback are kept.
ThenCallback(cur, b, rid) ==
    LET s1 == [cur EXCEPT !.data = [set |-> TRUE, bundle |-> b],
                          !.dataFrom = rid]
        hours == FillHours(AllHours, b.accidents)
        value == HeatmapReduce(<<>>, b.accidents)
    IN IF ~b.summary.has \/ JsonParseThrows(b.summary.text)
       THEN [s1 EXCEPT !.thrown = TRUE]
       ELSE LET s2 == [s1 EXCEPT
                         !.summaries = [set |-> TRUE,
                                        list |-> JsonParse(b.summary.text)],
                         !.summariesFrom = rid]
            IN IF hours.thrown
               THEN [s2 EXCEPT !.thrown = TRUE]
               ELSE LET s3 == [s2 EXCEPT
                                 !.chartData = [set |-> TRUE,
                                                hours |-> hours.hours],
                                 !.chartFrom = rid]
                    IN IF value.thrown
                       THEN [s3 EXCEPT !.thrown = TRUE]
                       ELSE [s3 EXCEPT !.heatmapValue = value.value,
                                       !.heatFrom = rid]

\* The promise chain of fetch rid settled with response resp.
AfterResponse(cur, resp, rid) ==
    IF resp.kind = "ok"
    THEN ThenCallback(cur, resp.bundle, rid)
    ELSE [cur EXCEPT !.thrown = TRUE]

SetState(st) ==
    /\ data' = st.data
    /\ summaries' = st.summaries
    /\ chartData' = st.chartData
    /\ heatmapValue' = st.heatmapValue
    /\ dataFrom' = st.dataFrom
    /\ summariesFrom' = st.summariesFrom
    /\ chartFrom' = st.chartFrom
    /\ heatFrom' = st.heatFrom

\* The component state is st.
StateIs(st) ==
    /\ data = st.data
    /\ summaries = st.summaries
    /\ chartData = st.chartData
    /\ heatmapValue = st.heatmapValue
    /\ dataFrom = st.dataFrom
    /\ summariesFrom = st.summariesFrom
    /\ chartFrom = st.chartFrom
    /\ heatFrom = st.heatFrom

DetailInit ==
    /\ route = "home"
    /\ query = NoQuery
    /\ openedFor = Undefined
    /\ tzOffset \in TzOffsets
    /\ StateIs(FreshState)
    /\ requests = <<>>
    /\ status = <<>>

\* The page is entered, or its query changes: render, then the effect, which
\* runs on mount and whenever repoName changed.
Navigate(q, asked) ==
    LET remount == route = "home"
        rerun == \/ remount
                 \/ SearchParamsGet(q, "repoName")
                       # SearchParamsGet(query, "repoName")
        fetches == rerun /\ EffectFetches(q)
        log == IF remount THEN <<>> ELSE requests
        st == IF remount THEN <<>> ELSE status
    IN /\ fetches => Len(log) < MaxReq
       /\ route' = "details"
       /\ query' = q
       /\ openedFor' = asked
       /\ requests' = IF fetches
                      THEN Append(log, FetchRequest(q, asked))
                      ELSE log
       /\ status' = IF fetches THEN Append(st, "pending") ELSE st
       /\ IF remount
          THEN SetState(FreshState)
          ELSE UNCHANGED <<data, summaries, chartData, heatmapValue, dataFrom,
                           summariesFrom, chartFrom, heatFrom>>
       /\ UNCHANGED <<tzOffset, feedVars>>

\* A feed card is clicked.
CardClick(repoName, eventType) ==
    /\ route = "home"
    /\ Navigate(CardQuery(repoName, eventType), eventType)

\* A detail URL is opened, from anywhere.
OpenUrl(q) ==
    /\ q # query
    /\ Navigate(q, SearchParamsGet(q, "accidentType"))

\* The response of fetch rid arrives and its promise chain runs.
Deliver(rid, resp) ==
    /\ route = "details"
    /\ rid \in 1..Len(requests)
    /\ status[rid] = "pending"
    /\ LET st == AfterResponse(CurrentState, resp, rid)
       IN /\ SetState(st)
          /\ status' = [status EXCEPT
                          ![rid] = IF st.thrown THEN "rejected" ELSE "fulfilled"]
    /\ UNCHANGED <<route, query, openedFor, tzOffset, requests, feedVars>>

\* The detail view is left: the component and its state are discarded, and what
\* is still in flight can no longer change anything.
Leave ==
    /\ route = "details"
    /\ route' = "home"
    /\ query' = NoQuery
    /\ openedFor' = Undefined
    /\ requests' = <<>>
    /\ status' = <<>>
    /\ SetState(FreshState)
    /\ UNCHANGED <<tzOffset, feedVars>>

DetailNext ==
    \/ \E n \in RepoNames, e \in EventTypes : CardClick(n, e)
    \/ \E q \in UrlQueries : OpenUrl(q)
    \/ \E rid \in 1..MaxReq, resp \in Responses(MaxDetailAcc) : Deliver(rid, resp)
    \/ Leave

\* One fetch of a detail view opened from a card is in flight.
AggInit ==
    /\ route = "details"
    /\ query = CardQuery("o/r", "PushEvent")
    /\ openedFor = "PushEvent"
    /\ tzOffset \in TzOffsets
    /\ StateIs(FreshState)
    /\ requests = <<FetchRequest(query, openedFor)>>
    /\ status = <<"pending">>

\* The bundle of that fetch arrives.
DeliverBundle(b) == Deliver(1, OkResponse(b))

AggNext == \E b \in Bundles(MaxAcc) : DeliverBundle(b)

\* A Home session; the detail view is not open.
InitFeed == FeedInit /\ DetailInit /\ tzOffset = 0

\* The application before the detail view is opened.
InitDetail == FeedInit /\ DetailInit

\* A detail view with its fetch in flight.
InitAgg == FeedInit /\ AggInit

SpecFeed == InitFeed /\ [][FeedNext]_vars

SpecDetail == InitDetail /\ [][DetailNext]_vars

SpecAgg == InitAgg /\ [][AggNext]_vars

(***************************************************************************)
(* Claims about the live feed (SpecFeed).                                  *)
(***************************************************************************)
RECURSIVE Reverse(_)
Reverse(s) == IF s = <<>> THEN <<>> ELSE Append(Reverse(Tail(s)), Head(s))

IsJson(raw) == raw.json
\* The objects decoded from the messages received so far, in arrival order.
Decoded == LET js == SelectSeq(received, IsJson)
           IN [i \in 1..Len(js) |-> js[i].value]

\* The validity rule of the data model: summary present and parseable,
\* payload.repo.name and payload.type present.
FeedEligible(r) ==
    /\ r.summary # Undefined
    /\ ~JsonParseThrows(r.summary)
    /\ r.payload.present
    /\ r.payload.name # Undefined
    /\ r.payload.type # Undefined

\* C1: after any sequence of messages the visible feed is exactly the received
\* records that are feed-eligible (summary parses, payload.repo.name and
\* payload.type present): its length is their number, a record lacking
\* payload.repo.name or payload.type is not rendered, and render never fails.
C1_FeedIsTheEligibleRecords ==
    /\ ~RenderThrows(activities)
    /\ Len(VisibleFeed(activities)) = Len(SelectSeq(Decoded, FeedEligible))
    /\ \A i \in 1..Len(VisibleFeed(activities)) :
          /\ VisibleFeed(activities)[i].repoName # Undefined
          /\ VisibleFeed(activities)[i].eventType # Undefined

\* C2: the feed is the reverse of the arrival order: the stored list is the
\* decoded messages newest first, and for a sequence of valid messages the
\* visible feed shows every one of them, the latest received first.
C2_NewestFirst ==
    /\ activities = Reverse(Decoded)
    /\ (\A i \in 1..Len(received) :
            received[i].json /\ FeedEligible(received[i].value))
       => /\ ~RenderThrows(activities)
          /\ Len(VisibleFeed(activities)) = Len(received)
          /\ \A i \in 1..Len(received) :
                VisibleFeed(activities)[i] =
                    CardOf(received[Len(received) + 1 - i].value, i - 1)

\* Two different valid messages were received and both are shown.
C2_TwoValidShown ==
    /\ Len(received) = 2
    /\ \A i \in 1..2 : received[i].json /\ FeedEligible(received[i].value)
    /\ received[1] # received[2]
    /\ Len(VisibleFeed(activities)) = 2
    /\ VisibleFeed(activities)[1].id = received[2].value.id

\* C3: a message that is not JSON leaves the feed, the channel and the session
\* as they were, and a parseable message (also one that follows it) is
\* prepended to the feed.
C3_UnparseableDropped ==
    [][received' # received =>
         LET raw == received'[Len(received')]
         IN IF raw.json
            THEN activities' = <<raw.value>> \o activities
            ELSE /\ activities' = activities
                 /\ readyState' = readyState
                 /\ readyState' = "open"
                 /\ mounted' = mounted
                 /\ closeCalls' = closeCalls]_vars

\* A message that is not JSON was received, then a parseable one was prepended.
C3_ParseableAfterUnparseable ==
    /\ Len(received) = 2
    /\ ~received[1].json
    /\ received[2].json
    /\ activities = <<received[2].value>>
    /\ readyState = "open"

\* C4 as stated: over the whole lifecycle close is issued one time only.
C4_CloseIssuedOnce ==
    errored => /\ closeCalls = 1
               /\ readyState = "closed"
               /\ activities = feedAtError

\* C4 as amended: after an error the channel has entered the closed state
\* exactly once and stays closed, the feed is the one accumulated before the
\* error, and close is issued at most twice, the second time by the teardown.
C4_ClosedOnceFeedKept ==
    /\ closings <= 1
    /\ errored => /\ readyState = "closed"
                  /\ closings = 1
                  /\ activities = feedAtError
                  /\ closeCalls \in {1, 2}
                  /\ (closeCalls = 2 => ~mounted)

\* Error after a message arrived, then teardown: close was issued twice.
C4_ErrorThenTeardown ==
    /\ errored
    /\ ~mounted
    /\ closeCalls = 2
    /\ Len(activities) >= 1

\* C9: no two entries of the visible feed carry the same id (stated for
\* sessions that received valid records only, where every record is shown).
C9_NoDuplicateIds ==
    (\A i \in 1..Len(received) :
         received[i].json /\ FeedEligible(received[i].value))
    => \A i, j \in 1..Len(VisibleFeed(activities)) :
          (i # j /\ VisibleFeed(activities)[i].id # Undefined)
             => VisibleFeed(activities)[i].id # VisibleFeed(activities)[j].id

(***************************************************************************)
(* Claims about the aggregation (SpecAgg) and the detail view (SpecDetail).*)
(***************************************************************************)
RECURSIVE SumHours(_, _)
SumHours(hours, n) == IF n = 0 THEN 0 ELSE hours[n - 1] + SumHours(hours, n - 1)

RECURSIVE SumCounts(_)
SumCounts(series) ==
    IF series = <<>> THEN 0 ELSE Head(series).count + SumCounts(Tail(series))

Parseable(text) == DateParse(text).valid

SummaryUsable(b) == b.summary.has /\ ~JsonParseThrows(b.summary.text)

\* C5: for every accident list, also one holding unparseable timestamps, the
\* hour aggregation completes and the 24 counts sum to the number of accidents
\* with a parseable timestamp.
C5_HourCountsSumToParseable ==
    (status[1] # "pending" /\ SummaryUsable(data.bundle))
       => /\ chartData.set
          /\ chartFrom = 1
          /\ SumHours(chartData.hours, HoursPerDay)
                = Len(SelectSeq(data.bundle.accidents, Parseable))

\* C6: the daily series has one entry per distinct UTC date, every count is at
\* least 1 and is the number of accidents of that date, the counts sum to the
\* number of accidents whose date key was computed, and it is an empty list,
\* never absent, for an empty accident list and before any series was stored.
C6_DailySeries ==
    LET acc == data.bundle.accidents
        DateOf(k) == ToISODate(DateParse(acc[k]))
    IN /\ heatFrom = 0 => heatmapValue = <<>>
       /\ (status[1] = "fulfilled" /\ acc = <<>>)
             => heatFrom = 1 /\ heatmapValue = <<>>
       /\ heatFrom # 0 =>
            /\ \A i, j \in 1..Len(heatmapValue) :
                  i # j => heatmapValue[i].date # heatmapValue[j].date
            /\ \A i \in 1..Len(heatmapValue) :
                  /\ heatmapValue[i].count >= 1
                  /\ heatmapValue[i].count =
                        Cardinality({k \in 1..Len(acc) :
                                        DateOf(k) = heatmapValue[i].date})
            /\ \A k \in 1..Len(acc) :
                  \E i \in 1..Len(heatmapValue) : heatmapValue[i].date = DateOf(k)
            /\ SumCounts(heatmapValue) = Len(acc)

\* Three accidents on two dates were grouped into two entries.
C6_TwoDatesGrouped ==
    /\ heatFrom = 1
    /\ Len(data.bundle.accidents) = 3
    /\ Len(heatmapValue) = 2
    /\ heatmapValue[1].count = 2

\* C7: a detail view opened for the event type "PushEvent" requests incidents
\* of kind force_push, one opened for any other event type requests
\* issue_created, also when it was opened from a feed card.
C7_PushEventRequestsForcePush ==
    \A i \in 1..Len(requests) :
        requests[i].accident_type =
            (IF requests[i].asked = "PushEvent"
             THEN "force_push" ELSE "issue_created")

\* C8: the bundle is never stored while its summaries, hour histogram or daily
\* series have not been produced from the same bundle.
C8_NeverHalfPopulated ==
    data.set => /\ summaries.set
                /\ summariesFrom = dataFrom
                /\ chartData.set
                /\ chartFrom = dataFrom
                /\ heatFrom = dataFrom

\* C10: once every response has been delivered, the bundle, summaries, hour
\* histogram and daily series are those of the most recent request.
C10_LatestRequestWins ==
    (Len(requests) >= 1 /\ \A i \in 1..Len(requests) : status[i] = "fulfilled")
       => /\ dataFrom = Len(requests)
          /\ summariesFrom = Len(requests)
          /\ chartFrom = Len(requests)
          /\ heatFrom = Len(requests)

====
